---- MODULE Spec2Model ----
(***************************************************************************)
(* The generation cache of GenAI Image Studio (IMPstreamlit_app.py):       *)
(* get_cache_path, generate_image and clear_cache, run by Streamlit        *)
(* sessions that share one cache directory in the temporary directory.     *)
(*                                                                         *)
(* Text is a sequence of one-character strings.  SHA-256 is modelled as an *)
(* ideal (injective) digest: the digest of s is the term <<"sha256", s>>.  *)
(* An image is its pixel content; a file is what has been written of it.   *)
(* streamlit_app.py holds the same three functions without the enhance     *)
(* parameter and the total_time metric.                                    *)
(*                                                                         *)
(* The environment decides, step by step: whether the cache directory can  *)
(* be created, whether a file can be removed, what the endpoint answers,   *)
(* whether enhancement and the two halves of a save succeed.  Reading a    *)
(* file depends on its contents only, and time.time() does not run         *)
(* backwards.                                                              *)
(***************************************************************************)
EXTENDS Integers, Sequences, FiniteSets, TLC

VARIABLES
    cache_dir,    \* TRUE iff <tempdir>/genai_cache exists
    store,        \* cache path -> contents of the file at that path
    now,          \* time.time()
    metrics,      \* session -> st.session_state.metrics
    pc,           \* session -> position inside generate_image
    req,          \* session -> the five parameters of the running call
    enhance,      \* session -> the enhance parameter of the running call
    img,          \* session -> local variable img
    start_time,   \* session -> local variable start_time
    created,      \* session -> Image.save: did this save create the file
    eff,          \* session -> side effects of the running call so far
    trace,        \* session -> the branches the running call has taken
    ncalls,       \* number of generate_image calls started
    last,         \* the operation that finished last
    prev,         \* the operation that finished before it
    ui,           \* session -> the script run of main that calls generate_image
    probe         \* the inputs and results of a function evaluated on its own

vars == <<cache_dir, store, now, metrics, pc, req, enhance, img, start_time,
          created, eff, trace, ncalls, last, prev, ui, probe>>

\* ------------------------------------------------------------------ bounds

\* generate_image calls in one behaviour
MaxCalls == 2

\* ------------------------------------------------------------- input sets

\* the Streamlit sessions sharing the cache directory
Procs == {"s1", "s2"}

\* the session the one-call-at-a-time specification follows
SeqProcs == {"s1"}

\* the pixel contents the endpoint may answer with
Pixels == {1, 2}

\* how long the endpoint takes to answer, in ticks of time.time()
Latencies == {0, 1}

\* -------------------------------------------------------------------- text

DigitChar == <<"0", "1", "2", "3", "4", "5", "6", "7", "8", "9">>

RECURSIVE IntToStr(_)
IntToStr(n) ==
    IF n < 10 THEN <<DigitChar[n + 1]>>
    ELSE IntToStr(n \div 10) \o <<DigitChar[(n % 10) + 1]>>

Request(p, n, s, w, h) ==
    [prompt |-> p, negative |-> n, style |-> s, width |-> w, height |-> h]

NoReq == Request(<<>>, <<>>, <<>>, 0, 0)

Sketch == <<"s", "k", "e", "t", "c", "h">>

ReqA == Request(<<"a", " ", "b", " ", "c">>, <<>>, Sketch, 512, 512)
ReqB == Request(<<"a", " ", "b", " ", "c">>, <<"x", "|", "y">>, Sketch, 512, 512)
ReqC == Request(<<"a", " ", "b", " ", "c", "|", "x">>, <<"y">>, Sketch, 512, 512)

ReqSet == {ReqA, ReqB, ReqC}

\* ------------------------------------------------------------ get_cache_path

M_CacheKey(r) ==
    r.prompt \o <<"|">> \o r.negative \o <<"|">> \o r.style \o <<"|">>
        \o IntToStr(r.width)

\* line 155: cache_key = f"{prompt}|{negative}|{style}|{width}|{height}"
CacheKey(r) ==
    r.prompt \o <<"|">> \o r.negative \o <<"|">> \o r.style \o <<"|">>
        \o IntToStr(r.width) \o <<"|">> \o IntToStr(r.height)

Sha256Hex(s) == <<"sha256", s>>

CachePath(r) == [dir |-> "genai_cache", name |-> Sha256Hex(CacheKey(r)), ext |-> ".png"]

Paths == {CachePath(r) : r \in ReqSet}

\* ------------------------------------------------------------ images, files

NoImage == [present |-> FALSE, pix |-> 0, enh |-> FALSE, truncated |-> FALSE]

enhance_image(i) == [i EXCEPT !.enh = TRUE]

NoFile == [kind |-> "none", pix |-> 0, enh |-> FALSE, header |-> FALSE]

Garbage == [kind |-> "garbage", pix |-> 0, enh |-> FALSE, header |-> FALSE]

\* img.save(cache_path, "PNG") completed
PngFile(i) == [kind |-> "png", pix |-> i.pix, enh |-> i.enh, header |-> TRUE]

\* img.save(cache_path, "PNG") stopped part-way; header: the file got as far
\* as its image data, so that a lazy Image.open still accepts it
PartialFile(h) == [kind |-> "partial", pix |-> 0, enh |-> FALSE, header |-> h]

M_Openable(f) == f.kind # "none"

M_NeverOpenable(f) == FALSE

\* Image.open(cache_path) succeeds.  Image.open is lazy: it reads the header
\* and leaves the image data unread, so it accepts a file cut inside its data.
Openable(f) == f.kind = "png" \/ (f.kind = "partial" /\ f.header)

M_OpenImage(f) ==
    [present |-> TRUE, pix |-> f.pix, enh |-> FALSE, truncated |-> (f.kind # "png")]

\* the result of Image.open(cache_path)
OpenImage(f) ==
    [present |-> TRUE, pix |-> f.pix, enh |-> f.enh, truncated |-> (f.kind # "png")]

ValidFile(f) == f.kind = "png"

\* ------------------------------------------------------------ result, errors

Msg(t, c) == [text |-> t, cause |-> c]

Envelope(i, s, e, m) == [img |-> i, source |-> s, elapsed |-> e, message |-> m]

NoEnvelope == Envelope(NoImage, "none", 0, Msg("", ""))

Exc(t, c) == [type |-> t, cause |-> c]

NoExc == Exc("none", "")

\* requests.exceptions: Timeout and its subclasses
IsTimeout(t) == t \in {"Timeout", "ConnectTimeout", "ReadTimeout"}

\* requests.exceptions: RequestException and its subclasses
IsRequestException(t) == IsTimeout(t) \/ t \in {"RequestException", "ConnectionError", "HTTPError"}

M_Handler(e) ==
    IF IsRequestException(e.type) THEN Msg("Network error: ", e.cause)
    ELSE IF IsTimeout(e.type) THEN Msg("Request timed out", "")
    ELSE Msg("Unexpected error: ", e.cause)

\* the except clauses of generate_image, in their order
Handler(e) ==
    IF IsTimeout(e.type) THEN Msg("Request timed out", "")
    ELSE IF IsRequestException(e.type) THEN Msg("Network error: ", e.cause)
    ELSE Msg("Unexpected error: ", e.cause)

ErrorEnvelope(e) == Envelope(NoImage, "error", 0, Handler(e))

CacheEnvelope(i) == Envelope(i, "cache", 0, Msg("Loaded from cache", ""))

M_ApiEnvelope(i, elapsed) ==
    Envelope(i, "api", 0 - elapsed, Msg("Generated successfully", ""))

ApiEnvelope(i, elapsed) == Envelope(i, "api", elapsed, Msg("Generated successfully", ""))

\* ----------------------------------------------------------------- history

NoEff == [reads |-> 0, deletes |-> 0, writes |-> 0, nets |-> 0]

\* entry: the file found by the existence check; found: what the cache check
\* made of it; endpoint: what the endpoint did; enhanced, save: how they went
\* overlap: another call was writing other image data into the same file
\* while this call had it open; unlinked: the file this call has open for
\* writing was removed from the directory, so that what it writes is lost
NoTrace ==
    [entry |-> NoFile, found |-> "n/a", endpoint |-> "n/a", enhanced |-> "n/a",
     save |-> "n/a", overlap |-> FALSE, unlinked |-> FALSE]

Op(k, p, r, e, ret, x, f, t, c) ==
    [kind |-> k, proc |-> p, req |-> r, enhance |-> e, ret |-> ret, exc |-> x,
     eff |-> f, trace |-> t, count |-> c]

NoOp == Op("none", "s1", NoReq, FALSE, NoEnvelope, NoExc, NoEff, NoTrace, 0)

\* what is kept of the operation before the last one
Summary(o) ==
    [kind |-> o.kind, req |-> o.req, source |-> o.ret.source, img |-> o.ret.img,
     found |-> o.trace.found, failed |-> (o.exc # NoExc)]

NoMetrics == [calls |-> 0, cache_hits |-> 0, errors |-> 0, total_time |-> 0]

\* ------------------------------------------------------------------ callers

\* mode: "none" outside a script run of main, "single" and "batch" inside the
\* two generation paths; aborted: an exception has ended the run;
\* prompts, style, width, height: the inputs of the run (the one prompt of the
\* sidebar, or what render_batch_generation returned); negative, enhance: the
\* negative prompt and auto_enhance of the single path;
\* results: the local list batch_results; lines: the text area of the batch
\* form, line by line
NoUi ==
    [mode |-> "none", aborted |-> FALSE, prompts |-> <<>>, negative |-> <<>>,
     style |-> <<>>, width |-> 0, height |-> 0, enhance |-> FALSE, results |-> <<>>,
     lines |-> <<>>]

\* the dictionary the batch loop appends for one prompt
BatchResult(prompt, ret) ==
    [prompt |-> prompt, success |-> ret.img.present,
     error |-> IF ret.img.present THEN Msg("", "") ELSE ret.message]

\* what the caller of session p does with the outcome of generate_image(r):
\* an exception ends the script run; the batch loop encodes the image
\* (img.save into a buffer, which raises on a truncated image) and appends
\* one result; the single path shows the outcome (st.image raises on a
\* truncated image) and the run ends
AfterCall(p, r, kind, ret) ==
    IF ui[p].mode = "none" THEN ui
    ELSE IF kind = "raised" THEN [ui EXCEPT ![p].aborted = TRUE]
    ELSE IF ui[p].mode = "batch"
    THEN IF ret.img.present /\ ret.img.truncated
         THEN [ui EXCEPT ![p].aborted = TRUE]
         ELSE [ui EXCEPT ![p].results = Append(@, BatchResult(r.prompt, ret))]
    ELSE IF ret.img.present /\ ret.img.truncated
    THEN [ui EXCEPT ![p].aborted = TRUE]
    ELSE [ui EXCEPT ![p] = NoUi]

\* lines 675-743: what the outcome adds to metrics["calls"]: the single path
\* counts a call that returned an image, after it has displayed the image
\* (st.image, which raises on a truncated one); the batch path counts nothing
Counted(p, i) ==
    IF ui[p].mode = "single" /\ i.present /\ ~i.truncated THEN 1 ELSE 0

NoProbe == [fn |-> "none"]

\* -------------------------------------------------------------------- Init

Init ==
    /\ cache_dir \in BOOLEAN
    /\ store \in [Paths -> {NoFile, Garbage}]
    /\ (~cache_dir => \A k \in Paths : store[k] = NoFile)
    /\ now = 0
    /\ metrics = [p \in Procs |-> NoMetrics]
    /\ pc = [p \in Procs |-> "idle"]
    /\ req = [p \in Procs |-> NoReq]
    /\ enhance = [p \in Procs |-> FALSE]
    /\ img = [p \in Procs |-> NoImage]
    /\ start_time = [p \in Procs |-> 0]
    /\ created = [p \in Procs |-> FALSE]
    /\ eff = [p \in Procs |-> NoEff]
    /\ trace = [p \in Procs |-> NoTrace]
    /\ ncalls = 0
    /\ last = NoOp
    /\ prev = Summary(NoOp)
    /\ ui = [p \in Procs |-> NoUi]
    /\ probe = NoProbe

\* ----------------------------------------------------------- generate_image

\* the call of session p ends: its locals die, the caller gets the outcome
Leave(p, kind, ret, x, f, t) ==
    /\ last' = Op(kind, p, req[p], enhance[p], ret, x, f, t, 0)
    /\ prev' = Summary(last)
    /\ ui' = AfterCall(p, req[p], kind, ret)
    /\ pc' = [pc EXCEPT ![p] = "idle"]
    /\ req' = [req EXCEPT ![p] = NoReq]
    /\ enhance' = [enhance EXCEPT ![p] = FALSE]
    /\ img' = [img EXCEPT ![p] = NoImage]
    /\ start_time' = [start_time EXCEPT ![p] = 0]
    /\ created' = [created EXCEPT ![p] = FALSE]
    /\ eff' = [eff EXCEPT ![p] = NoEff]
    /\ trace' = [trace EXCEPT ![p] = NoTrace]

M_ReturnError(p, x, f, t) ==
    /\ metrics' = [metrics EXCEPT ![p].errors = @ + 1, ![p].cache_hits = @ + 1]
    /\ Leave(p, "returned", ErrorEnvelope(x), NoExc, f, t)

\* one of the three except clauses: count the error, return the error envelope
ReturnError(p, x, f, t) ==
    /\ metrics' = [metrics EXCEPT ![p].errors = @ + 1]
    /\ Leave(p, "returned", ErrorEnvelope(x), NoExc, f, t)

\* lines 176-181: the call starts; get_cache_path creates the cache directory
\* (os.makedirs, outside every try) and derives the path
Start(p, r, e) ==
    /\ pc[p] = "idle"
    /\ ncalls' = ncalls + 1
    /\ UNCHANGED probe
    /\ \E mk \in BOOLEAN :
        IF cache_dir \/ mk
        THEN /\ cache_dir' = TRUE
             /\ pc' = [pc EXCEPT ![p] = "exists"]
             /\ req' = [req EXCEPT ![p] = r]
             /\ enhance' = [enhance EXCEPT ![p] = e]
             /\ UNCHANGED <<store, now, metrics, img, start_time, created, eff,
                            trace, last, prev, ui>>
        ELSE /\ last' = Op("raised", p, r, e, NoEnvelope,
                           Exc("OSError", "makedirs"), NoEff, NoTrace, 0)
             /\ prev' = Summary(last)
             /\ ui' = AfterCall(p, r, "raised", NoEnvelope)
             /\ UNCHANGED <<cache_dir, store, now, metrics, pc, req, enhance, img,
                            start_time, created, eff, trace>>

M_Exists(p) ==
    /\ pc[p] = "exists"
    /\ eff' = [eff EXCEPT ![p].reads = @ + 1]
    /\ IF store[CachePath(req[p])] = NoFile
       THEN /\ pc' = [pc EXCEPT ![p] = "open"]
            /\ trace' = [trace EXCEPT ![p].entry = store[CachePath(req[p])]]
       ELSE /\ pc' = [pc EXCEPT ![p] = "synth"]
            /\ UNCHANGED trace
    /\ UNCHANGED <<probe, cache_dir, store, now, metrics, req, enhance, img, start_time,
                   created, ncalls, last, prev, ui>>

\* line 182: os.path.exists(cache_path)
Exists(p) ==
    /\ pc[p] = "exists"
    /\ eff' = [eff EXCEPT ![p].reads = @ + 1]
    /\ IF store[CachePath(req[p])] # NoFile
       THEN /\ pc' = [pc EXCEPT ![p] = "open"]
            /\ trace' = [trace EXCEPT ![p].entry = store[CachePath(req[p])]]
       ELSE /\ pc' = [pc EXCEPT ![p] = "synth"]
            /\ trace' = [trace EXCEPT ![p].found = "miss"]
    /\ UNCHANGED <<probe, cache_dir, store, now, metrics, req, enhance, img, start_time,
                   created, ncalls, last, prev, ui>>

\* lines 183-189: Image.open(cache_path); a hit returns, a failure goes on to
\* the except clause
Open(p) ==
    /\ pc[p] = "open"
    /\ LET f == store[CachePath(req[p])] IN
       IF Openable(f)
       THEN /\ metrics' = [metrics EXCEPT ![p].cache_hits = @ + 1,
                                          ![p].calls = @ + Counted(p, OpenImage(f))]
            /\ Leave(p, "returned", CacheEnvelope(OpenImage(f)), NoExc, eff[p],
                     [trace[p] EXCEPT !.found = "hit"])
       ELSE /\ pc' = [pc EXCEPT ![p] = "remove"]
            /\ trace' = [trace EXCEPT ![p].found = "corrupt"]
            /\ UNCHANGED <<metrics, req, enhance, img, start_time, created, eff,
                           last, prev, ui>>
    /\ UNCHANGED <<probe, cache_dir, store, now, ncalls>>

\* the traces after os.remove of the paths in gone: a call that has one of
\* them open for writing goes on writing into a file no path leads to
Unlinked(gone) ==
    [q \in Procs |->
        IF pc[q] = "write" /\ CachePath(req[q]) \in gone
        THEN [trace[q] EXCEPT !.unlinked = TRUE]
        ELSE trace[q]]

\* line 190: os.remove(cache_path), inside the except clause and in no try
Remove(p) ==
    /\ pc[p] = "remove"
    /\ LET k == CachePath(req[p])
           f == [eff[p] EXCEPT !.deletes = @ + 1] IN
       \E ok \in BOOLEAN :
        IF store[k] # NoFile /\ ok
        THEN /\ store' = [store EXCEPT ![k] = NoFile]
             /\ pc' = [pc EXCEPT ![p] = "synth"]
             /\ eff' = [eff EXCEPT ![p] = f]
             /\ trace' = Unlinked({k})
             /\ UNCHANGED <<req, enhance, img, start_time, created, last, prev, ui>>
        ELSE /\ Leave(p, "raised", NoEnvelope,
                      Exc(IF store[k] = NoFile THEN "FileNotFoundError"
                          ELSE "PermissionError", "remove"),
                      f, trace[p])
             /\ UNCHANGED store
    /\ UNCHANGED <<probe, cache_dir, now, metrics, ncalls>>

\* what the endpoint does with one request
EndpointOutcomes ==
    {[kind |-> k, pix |-> 0] : k \in {"timeout", "refused", "status", "junk"}}
        \cup {[kind |-> "image", pix |-> x] : x \in Pixels}

M_EndpointExc(o) ==
    CASE o.kind = "timeout" -> Exc("ReadTimeout", "read timed out")
      [] o.kind = "refused" -> Exc("ConnectionError", "connection refused")
      [] o.kind = "status" -> Exc("HTTPError", "server error")
      [] OTHER -> NoExc

\* the exception lines 206-210 raise for an outcome: requests.get,
\* raise_for_status, Image.open(BytesIO(response.content))
EndpointExc(o) ==
    CASE o.kind = "timeout" -> Exc("ReadTimeout", "read timed out")
      [] o.kind = "refused" -> Exc("ConnectionError", "connection refused")
      [] o.kind = "status" -> Exc("HTTPError", "server error")
      [] o.kind = "junk" -> Exc("UnidentifiedImageError", "cannot identify image file")
      [] OTHER -> NoExc

\* line 210: the image Image.open makes of the response body
ResponseImage(o) ==
    [present |-> TRUE, pix |-> o.pix, enh |-> FALSE, truncated |-> (o.kind # "image")]

\* lines 192-215: start_time, the enriched prompt, requests.get under the
\* timeout, raise_for_status, Image.open of the body, enhance_image
Synthesize(p) ==
    /\ pc[p] = "synth"
    /\ \E o \in EndpointOutcomes, d \in Latencies, eok \in BOOLEAN :
        LET f == [eff[p] EXCEPT !.nets = @ + 1]
            t == [trace[p] EXCEPT !.endpoint = o.kind]
        IN
        /\ now' = now + d
        /\ IF EndpointExc(o) # NoExc
           THEN ReturnError(p, EndpointExc(o), f, t)
           ELSE IF enhance[p] /\ ~eok
           THEN ReturnError(p, Exc("ValueError", "enhance"), f,
                            [t EXCEPT !.enhanced = "failed"])
           ELSE /\ img' = [img EXCEPT ![p] =
                            IF enhance[p] THEN enhance_image(ResponseImage(o))
                            ELSE ResponseImage(o)]
                /\ start_time' = [start_time EXCEPT ![p] = now]
                /\ eff' = [eff EXCEPT ![p] = f]
                /\ trace' = [trace EXCEPT ![p] =
                              [t EXCEPT !.enhanced = IF enhance[p] THEN "yes" ELSE "no"]]
                /\ pc' = [pc EXCEPT ![p] = "save"]
                /\ UNCHANGED <<metrics, req, enhance, created, last, prev, ui>>
    /\ UNCHANGED <<probe, cache_dir, store, ncalls>>

M_SavedFile(i) == PngFile([i EXCEPT !.enh = FALSE])

\* the file img.save(cache_path, "PNG") leaves when it completes
SavedFile(i) == PngFile(i)

\* the other sessions that have the cache file of p's call open for writing
\* and are writing an image other than p's
Writers(p) ==
    {q \in Procs \ {p} :
        /\ pc[q] = "write" /\ ~trace[q].unlinked
        /\ CachePath(req[q]) = CachePath(req[p]) /\ img[q] # img[p]}

\* line 218, first half: Image.save opens cache_path for writing, which
\* creates or empties the file; every writer has its own file position
SaveOpen(p) ==
    /\ pc[p] = "save"
    /\ LET k == CachePath(req[p])
           f == [eff[p] EXCEPT !.writes = @ + 1] IN
       \E ok \in BOOLEAN :
        IF ok
        THEN /\ created' = [created EXCEPT ![p] = (store[k] = NoFile)]
             /\ store' = [store EXCEPT ![k] = PartialFile(FALSE)]
             /\ eff' = [eff EXCEPT ![p] = f]
             /\ pc' = [pc EXCEPT ![p] = "write"]
             /\ trace' = [q \in Procs |->
                            IF q \in Writers(p) \/ (q = p /\ Writers(p) # {})
                            THEN [trace[q] EXCEPT !.overlap = TRUE]
                            ELSE trace[q]]
             /\ UNCHANGED <<metrics, req, enhance, img, start_time, last, prev, ui>>
        ELSE /\ ReturnError(p, Exc("OSError", "open for writing"), f,
                            [trace[p] EXCEPT !.save = "openfail"])
             /\ UNCHANGED store
    /\ UNCHANGED <<probe, cache_dir, now, ncalls>>

M_Write(p) ==
    /\ pc[p] = "write"
    /\ LET k == CachePath(req[p]) IN
       \E ok \in BOOLEAN, h \in BOOLEAN, cleanup \in BOOLEAN :
        /\ store' = [store EXCEPT ![k] =
                       IF ok THEN SavedFile(img[p])
                       ELSE IF created[p] /\ cleanup THEN NoFile
                       ELSE PartialFile(h)]
        /\ metrics' = [metrics EXCEPT ![p].total_time = @ + (now - start_time[p])]
        /\ Leave(p, "returned", ApiEnvelope(img[p], now - start_time[p]), NoExc,
                 eff[p], [trace[p] EXCEPT !.save = IF ok THEN "ok" ELSE "writefail"])
    /\ UNCHANGED <<probe, cache_dir, now, ncalls>>

\* what a completed img.save of image i leaves in the file: the image, or,
\* when another writer's data went into the same file meanwhile, possibly a
\* mix of the two byte streams behind a PNG header
Outcomes(i, overlap) ==
    IF overlap THEN {SavedFile(i), PartialFile(TRUE)} ELSE {SavedFile(i)}

\* lines 218-223: the encoder writes the file; then elapsed, total_time and
\* the return.  A failed write leaves what was written, unless Image.save
\* created the file and manages to remove it again.  Writing into a file
\* that was removed meanwhile changes nothing in the directory.
Write(p) ==
    /\ pc[p] = "write"
    /\ LET k == CachePath(req[p]) IN
       \E ok \in BOOLEAN, h \in BOOLEAN, cleanup \in BOOLEAN :
        IF ok
        THEN /\ store' \in IF trace[p].unlinked THEN {store}
                            ELSE {[store EXCEPT ![k] = c] :
                                    c \in Outcomes(img[p], trace[p].overlap)}
             /\ metrics' = [metrics EXCEPT ![p].total_time = @ + (now - start_time[p]),
                                           ![p].calls = @ + Counted(p, img[p])]
             /\ Leave(p, "returned", ApiEnvelope(img[p], now - start_time[p]), NoExc,
                      eff[p], [trace[p] EXCEPT !.save = "ok"])
        ELSE /\ store' = IF trace[p].unlinked THEN store
                         ELSE [store EXCEPT ![k] =
                                 IF created[p] /\ cleanup THEN NoFile
                                 ELSE PartialFile(h)]
             /\ ReturnError(p, Exc("OSError", "write"), eff[p],
                            [trace[p] EXCEPT !.save = "writefail"])
    /\ UNCHANGED <<probe, cache_dir, now, ncalls>>

\* -------------------------------------------------------------- clear_cache

\* the record of a clear_cache run: exc is the exception its except clause
\* caught, reads the .png files that were there, deletes the files removed,
\* count the number returned
ClearOp(p, x, listed, removed, returned) ==
    Op("clear", p, NoReq, FALSE, NoEnvelope, x,
       [NoEff EXCEPT !.reads = listed, !.deletes = removed], NoTrace, returned)

M_clear_cache(p) ==
    /\ LET files == {k \in DOMAIN store : store[k] # NoFile} IN
       \E gone \in SUBSET files, failed \in BOOLEAN :
        /\ ~failed => gone = files
        /\ failed => (cache_dir /\ (gone # files \/ files = {}))
        /\ store' = [k \in DOMAIN store |-> IF k \in gone THEN NoFile ELSE store[k]]
        /\ last' = ClearOp(p, IF failed THEN Exc("OSError", "clear") ELSE NoExc,
                           Cardinality(files), Cardinality(gone), Cardinality(files))
    /\ prev' = Summary(last)
    /\ UNCHANGED <<probe, ui, cache_dir, now, metrics, pc, req, enhance, img,
                   start_time, created, eff, trace, ncalls>>

\* lines 238-260: without a cache directory return 0; else remove every .png
\* of the directory, counting; an exception of os.listdir or os.remove ends
\* the loop, is reported, and the count so far is returned
clear_cache(p) ==
    /\ LET files == {k \in DOMAIN store : store[k] # NoFile} IN
       \E gone \in SUBSET files, failed \in BOOLEAN :
        /\ ~failed => gone = files
        /\ failed => (cache_dir /\ (gone # files \/ files = {}))
        /\ store' = [k \in DOMAIN store |-> IF k \in gone THEN NoFile ELSE store[k]]
        /\ last' = ClearOp(p, IF failed THEN Exc("OSError", "clear") ELSE NoExc,
                           Cardinality(files), Cardinality(gone), Cardinality(gone))
        /\ trace' = Unlinked(gone)
    /\ prev' = Summary(last)
    /\ UNCHANGED <<probe, ui, cache_dir, now, metrics, pc, req, enhance, img,
                   start_time, created, eff, ncalls>>

\* -------------------------------------------------------------------- Spec

Idle(p) == pc[p] = "idle"

\* one call at a time: an operation starts only when no call is running
Quiet == \A q \in Procs : Idle(q)

Next ==
    \/ \E p \in SeqProcs, r \in ReqSet, e \in BOOLEAN :
            Quiet /\ ncalls < MaxCalls /\ Start(p, r, e)
    \/ \E p \in Procs : Exists(p)
    \/ \E p \in Procs : Open(p)
    \/ \E p \in Procs : Remove(p)
    \/ \E p \in Procs : Synthesize(p)
    \/ \E p \in Procs : SaveOpen(p)
    \/ \E p \in Procs : Write(p)
    \/ \E p \in SeqProcs : Quiet /\ clear_cache(p)

Spec == Init /\ [][Next]_vars

\* ------------------------------------------- get_cache_path on its own

\* no session has called anything yet
Boot ==
    /\ now = 0
    /\ metrics = [p \in Procs |-> NoMetrics]
    /\ pc = [p \in Procs |-> "idle"]
    /\ req = [p \in Procs |-> NoReq]
    /\ enhance = [p \in Procs |-> FALSE]
    /\ img = [p \in Procs |-> NoImage]
    /\ start_time = [p \in Procs |-> 0]
    /\ created = [p \in Procs |-> FALSE]
    /\ eff = [p \in Procs |-> NoEff]
    /\ trace = [p \in Procs |-> NoTrace]
    /\ ncalls = 0
    /\ last = NoOp
    /\ prev = Summary(NoOp)
    /\ ui = [p \in Procs |-> NoUi]

Cartoon == <<"c", "a", "r", "t", "o", "o", "n">>

\* the field values the sample requests are made of
KeyPrompts ==
    {<<"a", " ", "b", " ", "c">>, <<"a", " ", "b", " ", "c", "|", "x">>,
     <<"a", " ", "b", " ", "d">>}
KeyNegatives == {<<>>, <<"y">>, <<"x", "|", "y">>}
KeyStyles == {Sketch, Cartoon}
KeyWidths == {256, 512}
KeyHeights == {256, 512}

KeyReqs ==
    {Request(p, n, s, w, h) :
        p \in KeyPrompts, n \in KeyNegatives, s \in KeyStyles, w \in KeyWidths,
        h \in KeyHeights}

\* two requests whose keys and paths are still to be computed
KeyProbe(a, b) ==
    [fn |-> "get_cache_path", a |-> a, b |-> b, done |-> FALSE,
     key_a |-> <<>>, key_b |-> <<>>, path_a |-> CachePath(NoReq),
     path_b |-> CachePath(NoReq)]

InitKey ==
    /\ cache_dir = FALSE
    /\ store = [k \in Paths |-> NoFile]
    /\ Boot
    /\ probe \in {KeyProbe(a, b) : a \in KeyReqs, b \in KeyReqs}

\* get_cache_path is called for both requests
Fingerprint ==
    /\ probe.fn = "get_cache_path"
    /\ ~probe.done
    /\ probe' = [probe EXCEPT !.done = TRUE,
                              !.key_a = CacheKey(probe.a),
                              !.key_b = CacheKey(probe.b),
                              !.path_a = CachePath(probe.a),
                              !.path_b = CachePath(probe.b)]
    /\ UNCHANGED <<cache_dir, store, now, metrics, pc, req, enhance, img,
                   start_time, created, eff, trace, ncalls, last, prev, ui>>

NextKey == Fingerprint

SpecKey == InitKey /\ [][NextKey]_vars

\* ---------------------------------------------------------- validate_prompt

MAX_PROMPT_LENGTH == 500
MIN_PROMPT_WORDS == 3

\* the characters str.strip and str.split take for whitespace
Whitespace == {" ", "\t", "\n"}

IsSpace(c) == c \in Whitespace

\* prompt.strip()
Strip(s) ==
    LET ink == {i \in 1..Len(s) : ~IsSpace(s[i])} IN
    IF ink = {} THEN <<>>
    ELSE SubSeq(s, CHOOSE i \in ink : \A j \in ink : i <= j,
                   CHOOSE i \in ink : \A j \in ink : j <= i)

\* len(s.split()): one word starts wherever a character that is no whitespace
\* follows whitespace or the start of the text
WordCount(s) ==
    Cardinality({i \in 1..Len(s) : ~IsSpace(s[i]) /\ (i = 1 \/ IsSpace(s[i - 1]))})

UpperCase == <<"A", "B", "C", "D", "E", "F", "G", "H", "I", "J", "K",
     "L", "M", "N", "O", "P", "Q", "R", "S", "T", "U", "V", "W", "X", "Y", "Z">>
LowerCase == <<"a", "b", "c", "d", "e", "f", "g", "h", "i", "j", "k",
     "l", "m", "n", "o", "p", "q", "r", "s", "t", "u", "v", "w", "x", "y", "z">>

LowerChar(c) ==
    IF \E i \in 1..26 : UpperCase[i] = c
    THEN LowerCase[CHOOSE i \in 1..26 : UpperCase[i] = c]
    ELSE c

\* prompt.lower()
Lower(s) == [i \in 1..Len(s) |-> LowerChar(s[i])]

\* term in text
Contains(text, term) ==
    \E i \in 1..(Len(text) - Len(term) + 1) : SubSeq(text, i, i + Len(term) - 1) = term

blocked_terms == 
    {<<"n", "s", "f", "w">>,
     <<"e", "x", "p", "l", "i", "c", "i", "t">>,
     <<"a", "d", "u", "l", "t">>,
     <<"n", "u", "d", "e">>}

Verdict(ok, msg) == [ok |-> ok, msg |-> msg]

M_validate_prompt(prompt) ==
    IF prompt = <<>> \/ Strip(prompt) = <<>>
    THEN Verdict(FALSE, <<"Prompt cannot be empty">>)
    ELSE IF Len(prompt) >= MAX_PROMPT_LENGTH
    THEN Verdict(FALSE, <<"Prompt too long (max ">> \o IntToStr(MAX_PROMPT_LENGTH)
                            \o <<" characters)">>)
    ELSE IF WordCount(Strip(prompt)) < MIN_PROMPT_WORDS
    THEN Verdict(FALSE, <<"Prompt too short (minimum ">> \o IntToStr(MIN_PROMPT_WORDS)
                            \o <<" words)">>)
    ELSE IF \E term \in blocked_terms : Contains(Lower(prompt), term)
    THEN Verdict(FALSE, <<"Prompt contains inappropriate content">>)
    ELSE Verdict(TRUE, <<"Valid prompt">>)

M_validate_order(prompt) ==
    IF prompt = <<>> \/ Strip(prompt) = <<>>
    THEN Verdict(FALSE, <<"Prompt cannot be empty">>)
    ELSE IF \E term \in blocked_terms : Contains(Lower(prompt), term)
    THEN Verdict(FALSE, <<"Prompt contains inappropriate content">>)
    ELSE IF WordCount(Strip(prompt)) < MIN_PROMPT_WORDS
    THEN Verdict(FALSE, <<"Prompt too short (minimum ">> \o IntToStr(MIN_PROMPT_WORDS)
                            \o <<" words)">>)
    ELSE IF Len(prompt) > MAX_PROMPT_LENGTH
    THEN Verdict(FALSE, <<"Prompt too long (max ">> \o IntToStr(MAX_PROMPT_LENGTH)
                            \o <<" characters)">>)
    ELSE Verdict(TRUE, <<"Valid prompt">>)

\* lines 134-151: the four checks in their order
validate_prompt(prompt) ==
    IF prompt = <<>> \/ Strip(prompt) = <<>>
    THEN Verdict(FALSE, <<"Prompt cannot be empty">>)
    ELSE IF Len(prompt) > MAX_PROMPT_LENGTH
    THEN Verdict(FALSE, <<"Prompt too long (max ">> \o IntToStr(MAX_PROMPT_LENGTH)
                            \o <<" characters)">>)
    ELSE IF WordCount(Strip(prompt)) < MIN_PROMPT_WORDS
    THEN Verdict(FALSE, <<"Prompt too short (minimum ">> \o IntToStr(MIN_PROMPT_WORDS)
                            \o <<" words)">>)
    ELSE IF \E term \in blocked_terms : Contains(Lower(prompt), term)
    THEN Verdict(FALSE, <<"Prompt contains inappropriate content">>)
    ELSE Verdict(TRUE, <<"Valid prompt">>)

\* the sample descriptions: a stem followed by n copies of one character
Pad(stem, n, c) == stem \o [i \in 1..n |-> c]

Stems ==
    {<<>>, <<"a">>, <<"a", " ", "b">>, <<"a", " ", " ", "b">>,
     <<"a", " ", "b", " ", "c">>, <<" ", "a", " ", "b", " ", "c">>,
     <<"a", "\t", "b", "\n", "c">>,
     <<"n", "s", "f", "w", " ", "b", " ", "c">>,
     <<"a", " ", "N", "s", "F", "w", " ", "c">>,
     <<"a", " ", "b", " ", "N", "U", "D", "E">>,
     <<"x", "A", "d", "u", "l", "t", "x", " ", "b", " ", "c">>,
     <<"a", "n", " ", "e", "x", "p", "l", "i", "c", "i", "t", " ", "b">>,
     <<"N", "u", "D", "e", " ", "b">>}

Fillers == {"a", " "}

\* lengths around the limit
NearMax == {MAX_PROMPT_LENGTH - 1, MAX_PROMPT_LENGTH, MAX_PROMPT_LENGTH + 1}

PadLengths(stem) == {0, 1, 2} \cup {l - Len(stem) : l \in NearMax}

SamplePrompts ==
    {Pad(stem, n, c) : stem \in Stems, c \in Fillers,
                       n \in UNION {PadLengths(x) : x \in Stems}}

ValidateProbe(s) ==
    [fn |-> "validate_prompt", prompt |-> s, done |-> FALSE, ok |-> FALSE, msg |-> <<>>]

InitValidate ==
    /\ cache_dir = FALSE
    /\ store = [k \in Paths |-> NoFile]
    /\ Boot
    /\ probe \in {ValidateProbe(s) : s \in SamplePrompts}

\* validate_prompt is called on the description
Validate ==
    /\ probe.fn = "validate_prompt"
    /\ ~probe.done
    /\ probe' = [probe EXCEPT !.done = TRUE,
                              !.ok = validate_prompt(probe.prompt).ok,
                              !.msg = validate_prompt(probe.prompt).msg]
    /\ UNCHANGED <<cache_dir, store, now, metrics, pc, req, enhance, img,
                   start_time, created, eff, trace, ncalls, last, prev, ui>>

NextValidate == Validate

SpecValidate == InitValidate /\ [][NextValidate]_vars

\* -------------------------------------------- generate_image: the request URL

\* line 62
POLLINATIONS_URL ==
    <<"h", "t", "t", "p", "s", ":", "/", "/", "i", "m", "a", "g", "e", ".",
      "p", "o", "l", "l", "i", "n", "a", "t", "i", "o", "n", "s", ".", "a",
      "i", "/", "p", "r", "o", "m", "p", "t", "/">>

\* lines 98-109: style identifier -> descriptor
STYLE_OPTIONS ==
    (<<"p", "h", "o", "t", "o", "r", "e", "a", "l", "i", "s", "t", "i", "c">> :>
        <<"h", "y", "p", "e", "r", "-", "r", "e", "a", "l", "i", "s", "t",
          "i", "c", ",", " ", "p", "r", "o", "f", "e", "s", "s", "i", "o",
          "n", "a", "l", " ", "p", "h", "o", "t", "o", "g", "r", "a", "p",
          "h", "y", ",", " ", "h", "i", "g", "h", " ", "d", "e", "t", "a",
          "i", "l", ",", " ", "8", "k", " ", "r", "e", "s", "o", "l", "u",
          "t", "i", "o", "n">>) @@
    (<<"d", "i", "g", "i", "t", "a", "l", " ", "a", "r", "t">> :>
        <<"d", "i", "g", "i", "t", "a", "l", " ", "p", "a", "i", "n", "t",
          "i", "n", "g", ",", " ", "c", "o", "n", "c", "e", "p", "t", " ",
          "a", "r", "t", ",", " ", "t", "r", "e", "n", "d", "i", "n", "g",
          " ", "o", "n", " ", "a", "r", "t", "s", "t", "a", "t", "i", "o",
          "n", ",", " ", "d", "e", "t", "a", "i", "l", "e", "d">>) @@
    (<<"w", "a", "t", "e", "r", "c", "o", "l", "o", "r">> :>
        <<"w", "a", "t", "e", "r", "c", "o", "l", "o", "r", " ", "p", "a",
          "i", "n", "t", "i", "n", "g", ",", " ", "s", "o", "f", "t", " ",
          "b", "r", "u", "s", "h", " ", "s", "t", "r", "o", "k", "e", "s",
          ",", " ", "a", "r", "t", "i", "s", "t", "i", "c", ",", " ", "f",
          "l", "o", "w", "i", "n", "g", " ", "c", "o", "l", "o", "r", "s">>) @@
    (<<"c", "y", "b", "e", "r", "p", "u", "n", "k">> :>
        <<"c", "y", "b", "e", "r", "p", "u", "n", "k", " ", "a", "e", "s",
          "t", "h", "e", "t", "i", "c", ",", " ", "n", "e", "o", "n", " ",
          "l", "i", "g", "h", "t", "s", ",", " ", "f", "u", "t", "u", "r",
          "i", "s", "t", "i", "c", ",", " ", "d", "a", "r", "k", " ", "a",
          "t", "m", "o", "s", "p", "h", "e", "r", "e">>) @@
    (<<"p", "o", "r", "t", "r", "a", "i", "t">> :>
        <<"p", "r", "o", "f", "e", "s", "s", "i", "o", "n", "a", "l", " ",
          "p", "o", "r", "t", "r", "a", "i", "t", ",", " ", "s", "t", "u",
          "d", "i", "o", " ", "l", "i", "g", "h", "t", "i", "n", "g", ",",
          " ", "d", "e", "t", "a", "i", "l", "e", "d", " ", "f", "a", "c",
          "e", ",", " ", "h", "i", "g", "h", " ", "q", "u", "a", "l", "i",
          "t", "y">>) @@
    (<<"a", "b", "s", "t", "r", "a", "c", "t">> :>
        <<"a", "b", "s", "t", "r", "a", "c", "t", " ", "a", "r", "t", ",",
          " ", "g", "e", "o", "m", "e", "t", "r", "i", "c", " ", "s", "h",
          "a", "p", "e", "s", ",", " ", "m", "o", "d", "e", "r", "n", " ",
          "a", "r", "t", " ", "s", "t", "y", "l", "e", ",", " ", "c", "o",
          "l", "o", "r", "f", "u", "l">>) @@
    (<<"c", "a", "r", "t", "o", "o", "n">> :>
        <<"c", "a", "r", "t", "o", "o", "n", " ", "s", "t", "y", "l", "e",
          ",", " ", "a", "n", "i", "m", "a", "t", "e", "d", ",", " ", "c",
          "o", "l", "o", "r", "f", "u", "l", " ", "a", "n", "d", " ", "f",
          "u", "n", ",", " ", "d", "i", "s", "n", "e", "y", "-", "s", "t",
          "y", "l", "e">>) @@
    (<<"o", "i", "l", " ", "p", "a", "i", "n", "t", "i", "n", "g">> :>
        <<"o", "i", "l", " ", "p", "a", "i", "n", "t", "i", "n", "g", ",",
          " ", "c", "l", "a", "s", "s", "i", "c", "a", "l", " ", "a", "r",
          "t", " ", "s", "t", "y", "l", "e", ",", " ", "r", "i", "c", "h",
          " ", "t", "e", "x", "t", "u", "r", "e", "s", ",", " ", "m", "a",
          "s", "t", "e", "r", "p", "i", "e", "c", "e">>) @@
    (<<"s", "k", "e", "t", "c", "h">> :>
        <<"p", "e", "n", "c", "i", "l", " ", "s", "k", "e", "t", "c", "h",
          ",", " ", "h", "a", "n", "d", "-", "d", "r", "a", "w", "n", ",",
          " ", "a", "r", "t", "i", "s", "t", "i", "c", " ", "l", "i", "n",
          "e", "s", ",", " ", "d", "e", "t", "a", "i", "l", "e", "d", " ",
          "s", "h", "a", "d", "i", "n", "g">>) @@
    (<<"f", "a", "n", "t", "a", "s", "y">> :>
        <<"f", "a", "n", "t", "a", "s", "y", " ", "a", "r", "t", ",", " ",
          "m", "a", "g", "i", "c", "a", "l", ",", " ", "m", "y", "s", "t",
          "i", "c", "a", "l", " ", "a", "t", "m", "o", "s", "p", "h", "e",
          "r", "e", ",", " ", "e", "p", "i", "c", " ", "f", "a", "n", "t",
          "a", "s", "y", " ", "s", "t", "y", "l", "e">>)

\* STYLE_OPTIONS.get(style, style)
style_descriptor(style) ==
    IF style \in DOMAIN STYLE_OPTIONS THEN STYLE_OPTIONS[style] ELSE style

CommaSpace == <<",", " ">>
CommaNot == <<",", " ", "n", "o", "t", " ">>

M_full_prompt(r) ==
    r.prompt \o CommaSpace \o style_descriptor(r.style) \o CommaNot \o r.negative

\* lines 197-199; "if negative" is true of a non-empty string
full_prompt(r) ==
    LET styled == r.prompt \o CommaSpace \o style_descriptor(r.style)
    IN  IF r.negative # <<>> THEN styled \o CommaNot \o r.negative ELSE styled

\* the characters urllib.parse.quote never escapes, and its default safe = "/"
Unreserved ==
    {"a", "b", "c", "d", "e", "f", "g", "h", "i", "j", "k", "l", "m", "n", "o",
     "p", "q", "r", "s", "t", "u", "v", "w", "x", "y", "z",
     "A", "B", "C", "D", "E", "F", "G", "H", "I", "J", "K", "L", "M", "N", "O",
     "P", "Q", "R", "S", "T", "U", "V", "W", "X", "Y", "Z",
     "0", "1", "2", "3", "4", "5", "6", "7", "8", "9", "_", ".", "-", "~"}
Safe == {"/"}

\* the two hexadecimal digits of the other ASCII characters the sample
\* requests contain
Ascii ==
    (" " :> <<"2", "0">>) @@ ("," :> <<"2", "C">>) @@ ("%" :> <<"2", "5">>) @@
    ("|" :> <<"7", "C">>) @@ ("?" :> <<"3", "F">>) @@ ("&" :> <<"2", "6">>) @@
    ("=" :> <<"3", "D">>)

\* requests.utils.quote (urllib.parse.quote), line 202: character by
\* character, here by halves of the string
RECURSIVE quote(_)
quote(s) ==
    IF s = <<>> THEN <<>>
    ELSE IF Len(s) = 1
    THEN IF s[1] \in Unreserved \cup Safe THEN s ELSE <<"%">> \o Ascii[s[1]]
    ELSE quote(SubSeq(s, 1, Len(s) \div 2)) \o quote(SubSeq(s, Len(s) \div 2 + 1, Len(s)))

\* line 203
Url(r) ==
    POLLINATIONS_URL \o quote(full_prompt(r))
        \o <<"?", "w", "i", "d", "t", "h", "=">> \o IntToStr(r.width)
        \o <<"&", "h", "e", "i", "g", "h", "t", "=">> \o IntToStr(r.height)
        \o <<"&", "e", "n", "h", "a", "n", "c", "e", "=", "t", "r", "u", "e">>

\* what the endpoint reads from the URL: the path after /prompt/ up to the
\* query, percent-decoded
UpTo(s, c) ==
    LET at == {i \in 1..Len(s) : s[i] = c}
    IN  IF at = {} THEN s
        ELSE SubSeq(s, 1, (CHOOSE i \in at : \A j \in at : i <= j) - 1)

Decode(hex) == CHOOSE c \in DOMAIN Ascii : Ascii[c] = hex

\* urllib.parse.unquote: every "%" followed by two hexadecimal digits stands
\* for one character; the digits of an escape are never a "%", so the
\* escapes are the positions below and do not overlap
unquote(s) ==
    LET escapes == {i \in 1..Len(s) :
                       /\ s[i] = "%" /\ i + 2 <= Len(s)
                       /\ SubSeq(s, i + 1, i + 2) \in {Ascii[c] : c \in DOMAIN Ascii}}
        kept == {i \in 1..Len(s) : i - 1 \notin escapes /\ i - 2 \notin escapes}
        nth(k) == CHOOSE i \in kept : Cardinality({j \in kept : j <= i}) = k
    IN  [k \in 1..Cardinality(kept) |->
            IF nth(k) \in escapes THEN Decode(SubSeq(s, nth(k) + 1, nth(k) + 2))
            ELSE s[nth(k)]]

SentPrompt(url) ==
    unquote(UpTo(SubSeq(url, Len(POLLINATIONS_URL) + 1, Len(url)), "?"))

\* the sample requests: descriptions with characters quote escapes and with
\* the separators the enriched prompt itself uses, empty and non-empty
\* exclusions, every catalog style and three identifiers outside the catalog
UrlPrompts ==
    {<<"a", " ", "b", " ", "c">>, <<"a", "/", "b", "?", "c", "=", "d", "&", "e">>,
     <<"5", "0", "%", " ", "a", "|", "b">>, <<"a", ",", " ", "n", "o", "t", " ", "b">>}
UrlNegatives == {<<>>, <<"y">>, <<"x", ",", " ", "y">>}
UrlStyles ==
    DOMAIN STYLE_OPTIONS \cup {<<"a", "n", "i", "m", "e">>, <<"S", "k", "e", "t", "c", "h">>, <<>>}
UrlWidths == {256, 512}

UrlReqs ==
    {Request(p, n, s, w, 512) :
        p \in UrlPrompts, n \in UrlNegatives, s \in UrlStyles, w \in UrlWidths}

UrlProbe(r) ==
    [fn |-> "url", r |-> r, done |-> FALSE, url |-> <<>>, sent |-> <<>>]

InitUrl ==
    /\ cache_dir = FALSE
    /\ store = [k \in Paths |-> NoFile]
    /\ Boot
    /\ probe \in {UrlProbe(r) : r \in UrlReqs}

\* lines 197-206: the URL is built and requested
BuildUrl ==
    /\ probe.fn = "url"
    /\ ~probe.done
    /\ probe' = [probe EXCEPT !.done = TRUE,
                              !.url = Url(probe.r),
                              !.sent = SentPrompt(Url(probe.r))]
    /\ UNCHANGED <<cache_dir, store, now, metrics, pc, req, enhance, img,
                   start_time, created, eff, trace, ncalls, last, prev, ui>>

NextUrl == BuildUrl

SpecUrl == InitUrl /\ [][NextUrl]_vars

\* ------------------------------------------------------- main: the callers

BATCH_LIMIT == 5

\* what the user may have typed into the prompt field of the sidebar
SinglePrompts == {<<>>, <<"a", " ", "b">>, <<"a", " ", "b", " ", "c">>}

\* what the user may have typed into the batch text area, line by line
BatchInputs ==
    {<<<<"a", " ", "b", " ", "c">>, <<"a", " ", "b">>, <<"d", " ", "e", " ", "f">>>>,
     <<<<" ", "a", " ", "b", " ", "c", " ">>, <<" ">>, <<"a", " ", "b", " ", "c">>>>}

\* a text area with more than BATCH_LIMIT prompts
LongBatch ==
    <<<<"a", " ", "b", " ", "c">>, <<"d", " ", "e", " ", "f">>, <<"a", " ", "b", " ", "c">>,
      <<" ">>, <<"a", " ", "b", " ", "c">>, <<"a", " ", "b", " ", "c">>,
      <<"a", " ", "b">>, <<"d", " ", "e", " ", "f">>>>

NonEmpty(s) == s # <<>>

\* lines 499-504: strip every line, drop the blank ones, keep BATCH_LIMIT
batch_prompts(lines) ==
    LET kept == SelectSeq([i \in 1..Len(lines) |-> Strip(lines[i])], NonEmpty) IN
    IF Len(kept) > BATCH_LIMIT THEN SubSeq(kept, 1, BATCH_LIMIT) ELSE kept

\* the requests the two paths can make
AppReqs ==
    {Request(q, <<>>, Sketch, 512, 512) : q \in SinglePrompts}
        \cup UNION {{Request(batch_prompts(l)[i], <<>>, Sketch, 512, 512) :
                        i \in 1..Len(batch_prompts(l))} : l \in BatchInputs}

AppPaths == {CachePath(r) : r \in AppReqs}

InitApp ==
    /\ cache_dir \in BOOLEAN
    /\ store \in [AppPaths -> {NoFile, Garbage}]
    /\ (~cache_dir => \A k \in AppPaths : store[k] = NoFile)
    /\ Boot
    /\ probe = NoProbe

\* no button has been pressed in session p yet
Unused(p) == ui[p].mode = "none" /\ last.kind = "none" /\ ncalls = 0

\* the single path about to call generate_image for r with auto_enhance e
SingleUi(r, e) ==
    [NoUi EXCEPT !.mode = "single", !.prompts = <<r.prompt>>,
                 !.negative = r.negative, !.style = r.style,
                 !.width = r.width, !.height = r.height, !.enhance = e]

\* lines 661-667: the Generate button was pressed; validate_prompt decides
\* whether generate_image is called
SingleBegin(p, r, e) ==
    /\ Unused(p)
    /\ IF validate_prompt(r.prompt).ok
       THEN /\ ui' = [ui EXCEPT ![p] = SingleUi(r, e)]
            /\ UNCHANGED <<last, prev>>
       ELSE /\ last' = Op("invalid", p, r, e, NoEnvelope, NoExc, NoEff, NoTrace, 0)
            /\ prev' = Summary(last)
            /\ UNCHANGED ui
    /\ UNCHANGED <<probe, cache_dir, store, now, metrics, pc, req, enhance, img,
                   start_time, created, eff, trace, ncalls>>

\* lines 671-673: the single path calls generate_image
SingleCall(p) ==
    /\ ui[p].mode = "single"
    /\ ~ui[p].aborted
    /\ Start(p, Request(ui[p].prompts[1], ui[p].negative, ui[p].style,
                        ui[p].width, ui[p].height), ui[p].enhance)

\* lines 779-790: the Generate Batch button was pressed over a text area that
\* holds at least one prompt
BatchBegin(p, lines, s, w, h) ==
    /\ Unused(p)
    /\ batch_prompts(lines) # <<>>
    /\ ui' = [ui EXCEPT ![p] =
                [NoUi EXCEPT !.mode = "batch", !.prompts = batch_prompts(lines),
                             !.style = s, !.width = w, !.height = h,
                             !.lines = lines]]
    /\ UNCHANGED <<probe, cache_dir, store, now, metrics, pc, req, enhance, img,
                   start_time, created, eff, trace, ncalls, last, prev>>

\* lines 792-798: the loop calls generate_image for the next prompt, with no
\* negative prompt and no enhancement
BatchCall(p) ==
    /\ ui[p].mode = "batch"
    /\ ~ui[p].aborted
    /\ Len(ui[p].results) < Len(ui[p].prompts)
    /\ Start(p, Request(ui[p].prompts[Len(ui[p].results) + 1], <<>>, ui[p].style,
                        ui[p].width, ui[p].height), FALSE)

NextApp ==
    \/ \E p \in SeqProcs, q \in SinglePrompts, e \in BOOLEAN :
            SingleBegin(p, Request(q, <<>>, Sketch, 512, 512), e)
    \/ \E p \in SeqProcs : SingleCall(p)
    \/ \E p \in SeqProcs, l \in BatchInputs : BatchBegin(p, l, Sketch, 512, 512)
    \/ \E p \in SeqProcs : BatchCall(p)
    \/ \E p \in Procs : Exists(p)
    \/ \E p \in Procs : Open(p)
    \/ \E p \in Procs : Remove(p)
    \/ \E p \in Procs : Synthesize(p)
    \/ \E p \in Procs : SaveOpen(p)
    \/ \E p \in Procs : Write(p)

SpecApp == InitApp /\ [][NextApp]_vars

\* the batch path alone, over LongBatch
NextBatch ==
    \/ \E p \in SeqProcs : BatchBegin(p, LongBatch, Sketch, 512, 512)
    \/ \E p \in SeqProcs : BatchCall(p)
    \/ \E p \in Procs : Exists(p)
    \/ \E p \in Procs : Open(p)
    \/ \E p \in Procs : Remove(p)
    \/ \E p \in Procs : Synthesize(p)
    \/ \E p \in Procs : SaveOpen(p)
    \/ \E p \in Procs : Write(p)

\* the cache before the batch: any files for the prompts of LongBatch that
\* are processed
InitBatch ==
    /\ InitApp
    /\ \A k \in AppPaths :
          (\A i \in 1..Len(batch_prompts(LongBatch)) :
              k # CachePath(Request(batch_prompts(LongBatch)[i], <<>>, Sketch, 512, 512)))
            => store[k] = NoFile

SpecBatch == InitBatch /\ [][NextBatch]_vars

\* ------------------------------------------------ two sessions at a time

\* the requests of the two sessions: the same request twice, or two requests
\* with different fingerprints
ConcReqs == {ReqA, ReqB}

\* both sessions have pressed Generate with an accepted prompt; each runs its
\* one call, and the steps of the two calls interleave freely
InitConc ==
    /\ cache_dir \in BOOLEAN
    /\ store \in [Paths -> {NoFile, Garbage}]
    /\ (~cache_dir => \A k \in Paths : store[k] = NoFile)
    /\ now = 0
    /\ metrics = [p \in Procs |-> NoMetrics]
    /\ pc = [p \in Procs |-> "idle"]
    /\ req = [p \in Procs |-> NoReq]
    /\ enhance = [p \in Procs |-> FALSE]
    /\ img = [p \in Procs |-> NoImage]
    /\ start_time = [p \in Procs |-> 0]
    /\ created = [p \in Procs |-> FALSE]
    /\ eff = [p \in Procs |-> NoEff]
    /\ trace = [p \in Procs |-> NoTrace]
    /\ ncalls = 0
    /\ last = NoOp
    /\ prev = Summary(NoOp)
    /\ ui \in [Procs -> {SingleUi(r, e) : r \in ConcReqs, e \in BOOLEAN}]
    /\ probe = NoProbe

\* Clear Cache is pressed once, while the calls are running
NextConc ==
    \/ \E p \in SeqProcs : last.kind = "none" /\ ~Quiet /\ clear_cache(p)
    \/ \E p \in Procs : SingleCall(p)
    \/ \E p \in Procs : Exists(p)
    \/ \E p \in Procs : Open(p)
    \/ \E p \in Procs : Remove(p)
    \/ \E p \in Procs : Synthesize(p)
    \/ \E p \in Procs : SaveOpen(p)
    \/ \E p \in Procs : Write(p)

SpecConc == InitConc /\ [][NextConc]_vars

\* ------------------------------------------------------------------ claims

\* the last operation is a finished generate_image call
Called == last.kind \in {"returned", "raised"}

\* the last operation is a generate_image call that returned an envelope
Returned == last.kind = "returned"

\* the store entry of the last call's request
LastEntry == store[CachePath(last.req)]

\* file contents that are not an image Image.open identifies
Unidentifiable(f) == f.kind = "garbage" \/ (f.kind = "partial" /\ ~f.header)

\* C1: Cache round-trip.  When generate_image(R) returned a fresh image
\* ("api") and the next operation is generate_image(R) again, the second call
\* returns provenance cache with the same image and calls the endpoint not once.
C1_RoundTrip ==
    (prev.kind = "returned" /\ prev.source = "api" /\ Called /\ last.req = prev.req)
        => /\ Returned
           /\ last.ret.source = "cache"
           /\ last.ret.img = prev.img
           /\ last.eff.nets = 0

\* C1's case: a miss answered fresh, then the same request answered from cache
C1_Witness ==
    /\ prev.kind = "returned" /\ prev.source = "api" /\ prev.found = "miss"
    /\ prev.img.enh
    /\ Returned /\ last.req = prev.req /\ last.ret.source = "cache"

\* C2: generate_image never propagates an exception: every finished call has
\* returned an envelope.
C2_AlwaysEnvelope == last.kind # "raised"

C4_TimeoutIsolation ==
    (Quiet /\ Called /\ last.trace.endpoint = "timeout")
        => /\ Returned
           /\ last.ret = Envelope(NoImage, "error", 0, Msg("Request timed out", ""))
           /\ last.eff.writes = 0
           /\ LastEntry = NoFile

\* C4's case: a timed-out call has returned
C4_Witness == Quiet /\ Returned /\ last.trace.endpoint = "timeout"

\* C5: Store validity.  Outside a running write, no entry of the store is a
\* partially written file.
C5_NoPartialEntry ==
    \A k \in Paths :
        store[k].kind = "partial"
            => \E p \in Procs : pc[p] = "write" /\ CachePath(req[p]) = k

\* C6: Created once, never mutated.  A valid entry stays as it is in every
\* step, except that clear_cache may remove it.
C6_ValidEntryStays ==
    [][\A k \in Paths :
          ValidFile(store[k])
              => \/ store'[k] = store[k]
                 \/ (store'[k] = NoFile /\ last'.kind = "clear")]_vars

\* C6's case: a call served from a valid entry that is still in place
C6_Witness ==
    /\ Quiet /\ Returned
    /\ last.trace.found = "hit"
    /\ ValidFile(last.trace.entry)
    /\ LastEntry = last.trace.entry
    /\ last.eff.writes = 0 /\ last.eff.deletes = 0

\* the side effects e of a call that took the branches t
EffectsBounded(e, t) ==
    /\ e.reads <= 1
    /\ e.deletes <= 1 /\ (e.deletes = 1 => t.found = "corrupt")
    /\ e.writes <= 1 /\ (e.writes = 1 => t.endpoint = "image")
    /\ e.nets <= 1 /\ (e.nets = 1 => t.found \in {"miss", "corrupt"})

ErrorTexts == {"Request timed out", "Network error: ", "Unexpected error: "}

\* C8: Envelope shape.  A returned envelope is (image, cache, 0, "Loaded from
\* cache"), (image, api, elapsed >= 0, "Generated successfully") or (no image,
\* error, 0, an error message).
C8_EnvelopeShape ==
    Returned =>
        LET r == last.ret IN
        \/ /\ r.img.present /\ r.source = "cache" /\ r.elapsed = 0
           /\ r.message = Msg("Loaded from cache", "")
        \/ /\ r.img.present /\ r.source = "api" /\ r.elapsed >= 0
           /\ r.message = Msg("Generated successfully", "")
        \/ /\ r.img = NoImage /\ r.source = "error" /\ r.elapsed = 0
           /\ r.message.text \in ErrorTexts

\* C8's case: a fresh envelope with a positive elapsed time, after an error one
C8_Witness ==
    /\ prev.kind = "returned" /\ prev.source = "error"
    /\ Returned /\ last.ret.source = "api" /\ last.ret.elapsed > 0

\* C9: Error classification.  A timeout yields "Request timed out"; a refused
\* connection or a non-success status yields "Network error: " with the cause;
\* either way the endpoint was called once.
C9_Classification ==
    Called =>
        /\ last.trace.endpoint = "timeout"
            => /\ last.ret.source = "error"
               /\ last.ret.message = Msg("Request timed out", "")
               /\ last.eff.nets = 1
        /\ last.trace.endpoint \in {"refused", "status"}
            => /\ last.ret.source = "error"
               /\ last.ret.message.text = "Network error: "
               /\ last.ret.message.cause \in {"connection refused", "server error"}
               /\ last.eff.nets = 1

\* C9's case: a transport error returned right after a timeout
C9_Witness ==
    /\ prev.kind = "returned" /\ prev.source = "error"
    /\ Returned /\ last.trace.endpoint = "refused"
    /\ last.ret.message.cause = "connection refused"

\* C10: Fresh decode failure.  When the endpoint answers with bytes that are
\* no image, the call returns an error envelope, has written nothing, and
\* leaves no entry for its fingerprint.
C10_DecodeFailure ==
    (Quiet /\ Called /\ last.trace.endpoint = "junk")
        => /\ Returned
           /\ last.ret.source = "error"
           /\ last.ret.img = NoImage
           /\ last.ret.message.text = "Unexpected error: "
           /\ last.eff.writes = 0
           /\ LastEntry = NoFile

\* C10's case: an undecodable response after the removal of a corrupt entry
C10_Witness ==
    /\ Quiet /\ Returned /\ last.trace.endpoint = "junk"
    /\ last.trace.found = "corrupt"

\* the last call got an image from the endpoint and then failed to save it
SaveFailed ==
    /\ Called
    /\ last.trace.endpoint = "image"
    /\ last.trace.save \in {"openfail", "writefail"}

\* C11 as stated: when synthesis and decoding succeeded and saving the file
\* failed, the call still returns the fresh image with provenance api.
C11_SaveFailureNonFatal ==
    SaveFailed
        => /\ Returned
           /\ last.ret.source = "api"
           /\ last.ret.img.present

\* C11, amended: when synthesis and decoding succeeded and saving the file
\* failed, the call returns (no image, error, 0, "Unexpected error: " with the
\* cause of the save failure); the fresh image is not returned.
C11_SaveFailureIsError ==
    SaveFailed
        => /\ Returned
           /\ last.ret.img = NoImage
           /\ last.ret.source = "error"
           /\ last.ret.elapsed = 0
           /\ last.ret.message.text = "Unexpected error: "
           /\ last.ret.message.cause \in {"open for writing", "write"}
           /\ last.eff.nets = 1

\* C11's case: the endpoint answered with an image and the write stopped part-way
C11_Witness ==
    /\ Returned
    /\ last.trace.endpoint = "image"
    /\ last.trace.save = "writefail"

\* C12: Failure locality.  A generate_image call that returns after a call
\* ended in an error envelope is a cache hit only on a complete image file,
\* never on what the failed call left behind; and when its endpoint request
\* and its save succeed it returns provenance api and leaves a valid entry.
C12_FailureLocality ==
    (prev.kind = "returned" /\ prev.source = "error" /\ Returned)
        => /\ last.ret.source = "cache" => ValidFile(last.trace.entry)
           /\ (Quiet /\ last.trace.endpoint = "image" /\ last.trace.save = "ok")
                => /\ last.ret.source = "api"
                   /\ ValidFile(LastEntry)

\* C13: The fingerprint is never shared by different requests: a cache hit
\* on the entry the call before has just written is a hit of the same five
\* fields.
C13_NoSharedFingerprint ==
    (prev.kind = "returned" /\ prev.source = "api" /\ Called
        /\ last.trace.found = "hit" /\ CachePath(last.req) = CachePath(prev.req))
        => last.req = prev.req

\* the fields in which two requests differ
DiffFields(a, b) ==
    {f \in {"prompt", "negative", "style", "width", "height"} : a[f] # b[f]}

\* C14: Fingerprint sensitivity.  Two requests that differ in exactly one of
\* the five fields have different key strings and different cache paths.
C14_Sensitivity ==
    (probe.fn = "get_cache_path" /\ probe.done
        /\ Cardinality(DiffFields(probe.a, probe.b)) = 1)
        => /\ probe.key_a # probe.key_b
           /\ probe.path_a # probe.path_b

\* C14's case: only the height differs, and both descriptions and exclusions
\* hold the delimiter
C14_Witness ==
    /\ probe.fn = "get_cache_path" /\ probe.done
    /\ DiffFields(probe.a, probe.b) = {"height"}
    /\ probe.a.prompt = <<"a", " ", "b", " ", "c", "|", "x">>
    /\ probe.a.negative = <<"x", "|", "y">>
    /\ probe.path_a # probe.path_b

\* the verdicts of validate_prompt on a description that is not accepted
TooLong == <<"Prompt too long (max ", "5", "0", "0", " characters)">>
TooShort == <<"Prompt too short (minimum ", "3", " words)">>

\* the description is empty or whitespace only
Blank(s) == \A i \in 1..Len(s) : IsSpace(s[i])

\* the words of a description, counted by the places where one ends
Words(s) ==
    Cardinality({i \in 1..Len(s) :
                    ~IsSpace(s[i]) /\ (i = Len(s) \/ IsSpace(s[i + 1]))})

\* the description holds a denylisted term in some casing
Denied(s) ==
    \E t \in blocked_terms : \E i \in 0..(Len(s) - Len(t)) :
        \A j \in 1..Len(t) : LowerChar(s[i + j]) = t[j]

\* C16: Validation decision.  validate_prompt rejects a description exactly
\* when it is empty or whitespace only, or longer than 500 characters, or of
\* fewer than 3 words, or holds a denylisted term in any casing; a description
\* of 500 characters that meets the other conditions is accepted, one of 501
\* is rejected as too long, and one of 2 words is rejected as too short.
C16_ValidationDecision ==
    (probe.fn = "validate_prompt" /\ probe.done)
        => LET s == probe.prompt
               fine == ~Blank(s) /\ Words(s) >= 3 /\ ~Denied(s)
           IN /\ probe.ok <=> (fine /\ Len(s) <= 500)
              /\ (fine /\ Len(s) = 500) => probe.ok
              /\ (fine /\ Len(s) = 501) => (~probe.ok /\ probe.msg = TooLong)
              /\ (~Blank(s) /\ Words(s) = 2 /\ Len(s) <= 500)
                    => (~probe.ok /\ probe.msg = TooShort)

\* C16's case: a description of exactly 500 characters has been accepted
C16_Witness ==
    /\ probe.fn = "validate_prompt" /\ probe.done
    /\ Len(probe.prompt) = 500
    /\ Words(probe.prompt) = 3
    /\ probe.ok

\* C17: Validation gate.  On the single and on the batch path generate_image
\* runs only for a description that validate_prompt accepts: every running
\* call and every finished call is for an accepted description.
C17_ValidationGate ==
    /\ \A p \in Procs : pc[p] # "idle" => validate_prompt(req[p].prompt).ok
    /\ Called => validate_prompt(last.req.prompt).ok

\* C18: Batch ordering and independence.  The batch loop is never ended by a
\* failing item; its results follow the prompts in their order, one result per
\* call made, the running call being the one for the next prompt.
C18_BatchOrder ==
    \A p \in Procs :
        ui[p].mode = "batch"
            => LET u == ui[p]
                   n == Len(u.results)
               IN /\ ~u.aborted
                  /\ n <= Len(u.prompts)
                  /\ \A i \in 1..n : u.results[i].prompt = u.prompts[i]
                  /\ ncalls = n + (IF pc[p] = "idle" THEN 0 ELSE 1)
                  /\ pc[p] # "idle" => req[p].prompt = u.prompts[n + 1]

\* C18 for items that fail with an error envelope: the loop goes on, and the
\* failed item has its result in its place
C18_EnvelopeFailures ==
    \A p \in Procs :
        (ui[p].mode = "batch" /\ ~ui[p].aborted)
            => LET u == ui[p]
                   n == Len(u.results)
               IN /\ n <= Len(u.prompts)
                  /\ \A i \in 1..n : u.results[i].prompt = u.prompts[i]
                  /\ ncalls = n + (IF pc[p] = "idle" THEN 0 ELSE 1)
                  /\ pc[p] # "idle" => req[p].prompt = u.prompts[n + 1]

\* the files of the cache directory
Artifacts == {k \in DOMAIN store : store[k] # NoFile}

\* the last operation is a clear_cache run and nothing has started since
Cleared == Quiet /\ last.kind = "clear"

BothMissed ==
    /\ Quiet
    /\ prev.kind = "returned" /\ prev.found = "miss" /\ prev.source = "api"
    /\ Called /\ last.trace.found = "miss"
    /\ last.trace.endpoint = "image" /\ last.trace.save = "ok"
    /\ ~last.trace.unlinked
    /\ CachePath(last.req) = CachePath(prev.req)

\* C20: Concurrent identical requests.  When two calls for the same
\* fingerprint both passed the cache check before either wrote, both called
\* the endpoint and wrote, both return a fresh envelope, and the entry is in
\* the end the complete image of the call that finished its write last.
C20_LastWriterWins ==
    BothMissed
        => /\ Returned
           /\ last.ret.source = "api"
           /\ last.eff.nets = 1 /\ last.eff.writes = 1
           /\ ValidFile(LastEntry)
           /\ LastEntry = SavedFile(last.ret.img)

\* another call than q has the cache file of q's request open and is writing it
BeingWritten(q) ==
    \E p \in Procs \ {q} :
        /\ pc[p] = "write" /\ ~trace[p].unlinked
        /\ CachePath(req[p]) = CachePath(req[q])

\* C21: Per-key atomicity.  No existence check of a call finds the file that
\* another call is in the middle of writing, and no call deletes as corrupt a
\* file that another call is in the middle of writing.
C21_AtomicPerKey ==
    [][\A q \in Procs :
          /\ (pc[q] = "exists" /\ pc'[q] = "open") => ~BeingWritten(q)
          /\ (pc[q] = "remove" /\ pc'[q] = "synth") => ~BeingWritten(q)]_vars

\* the step ends a call of session p that returns an envelope
Returns(p) == pc[p] # "idle" /\ pc'[p] = "idle" /\ last'.kind = "returned"

\* what the step adds to counter c of session p
Added(p, c) == metrics'[p][c] - metrics[p][c]

\* C22: Counter updates per call.  The step in which a call returns adds 1
\* to cache_hits and nothing to errors when the provenance is cache, 1 to
\* errors and nothing to cache_hits when it is error, and nothing to either
\* when it is api; no other step of a call changes the two counters.
C22_CounterUpdates ==
    [][\A p \in Procs :
          IF Returns(p)
          THEN /\ last'.ret.source = "cache"
                    => (Added(p, "cache_hits") = 1 /\ Added(p, "errors") = 0)
               /\ last'.ret.source = "error"
                    => (Added(p, "errors") = 1 /\ Added(p, "cache_hits") = 0)
               /\ last'.ret.source = "api"
                    => (Added(p, "errors") = 0 /\ Added(p, "cache_hits") = 0)
          ELSE Added(p, "errors") = 0 /\ Added(p, "cache_hits") = 0]_vars

\* C22's case: a batch whose first item was generated fresh and whose second
\* was a cache hit on it
C22_Witness ==
    /\ Returned /\ last.ret.source = "cache"
    /\ ui[last.proc].mode = "batch" /\ Len(ui[last.proc].results) = 2
    /\ ui[last.proc].results[1].success
    /\ metrics[last.proc].cache_hits = 1
    /\ metrics[last.proc].errors = 0

\* C23: Enriched prompt construction.  The prompt the endpoint receives on a
\* cache miss is the description, ", ", the descriptor of the style, and then
\* ", not " and the exclusions exactly when the exclusions are non-empty; the
\* descriptor is the catalog text of a catalog style and the identifier itself
\* otherwise.
Descriptor(style) ==
    CASE style = Sketch ->
           <<"p", "e", "n", "c", "i", "l", " ", "s", "k", "e", "t", "c", "h",
             ",", " ", "h", "a", "n", "d", "-", "d", "r", "a", "w", "n", ",",
             " ", "a", "r", "t", "i", "s", "t", "i", "c", " ", "l", "i", "n",
             "e", "s", ",", " ", "d", "e", "t", "a", "i", "l", "e", "d", " ",
             "s", "h", "a", "d", "i", "n", "g">>
      [] style = Cartoon ->
           <<"c", "a", "r", "t", "o", "o", "n", " ", "s", "t", "y", "l", "e",
             ",", " ", "a", "n", "i", "m", "a", "t", "e", "d", ",", " ", "c",
             "o", "l", "o", "r", "f", "u", "l", " ", "a", "n", "d", " ", "f",
             "u", "n", ",", " ", "d", "i", "s", "n", "e", "y", "-", "s", "t",
             "y", "l", "e">>
      [] style \in DOMAIN STYLE_OPTIONS \ {Sketch, Cartoon} -> STYLE_OPTIONS[style]
      [] OTHER -> style

C23_EnrichedPrompt ==
    (probe.fn = "url" /\ probe.done) =>
        LET r == probe.r
            s == probe.sent
            d == Descriptor(r.style)
            n == Len(r.prompt) + 2 + Len(d)
        IN  /\ Len(s) >= n
            /\ SubSeq(s, 1, Len(r.prompt)) = r.prompt
            /\ SubSeq(s, Len(r.prompt) + 1, Len(r.prompt) + 2) = <<",", " ">>
            /\ SubSeq(s, Len(r.prompt) + 3, n) = d
            /\ (r.negative = <<>>) <=> (Len(s) = n)
            /\ r.negative # <<>> =>
                 SubSeq(s, n + 1, Len(s)) = <<",", " ", "n", "o", "t", " ">> \o r.negative

\* C23's case: a URL built for an identifier outside the catalog, with
\* exclusions and a description quote has to escape
C23_Witness ==
    /\ probe.fn = "url" /\ probe.done
    /\ probe.r.style \notin DOMAIN STYLE_OPTIONS /\ probe.r.style # <<>>
    /\ probe.r.negative # <<>>
    /\ "%" \in {probe.r.prompt[i] : i \in 1..Len(probe.r.prompt)}
    /\ probe.url # POLLINATIONS_URL \o probe.sent

\* the lines of a text area that are not blank, stripped, in their order
RECURSIVE NonBlank(_)
NonBlank(lines) ==
    IF lines = <<>> THEN <<>>
    ELSE IF \A i \in 1..Len(Head(lines)) : Head(lines)[i] \in Whitespace
    THEN NonBlank(Tail(lines))
    ELSE <<Strip(Head(lines))>> \o NonBlank(Tail(lines))

\* the batch of session p is over: its loop has ended or an exception ended it
BatchOver(p) ==
    /\ ui[p].mode = "batch" /\ pc[p] = "idle"
    /\ (ui[p].aborted \/ Len(ui[p].results) = Len(ui[p].prompts))

\* the calls the batch of session p has made are calls for the first prompts
\* of the text area, at most BATCH_LIMIT of them
WithinLimit(p) ==
    LET first == NonBlank(ui[p].lines)
        n == Len(ui[p].results)
    IN  /\ ncalls <= BATCH_LIMIT
        /\ n <= BATCH_LIMIT
        /\ \A i \in 1..n : ui[p].results[i].prompt = first[i]
        /\ pc[p] # "idle" => (n < BATCH_LIMIT /\ req[p].prompt = first[n + 1])

\* C24: Batch bound.  A batch makes at most BATCH_LIMIT calls of
\* generate_image; over more than BATCH_LIMIT non-blank lines it processes
\* exactly the first BATCH_LIMIT, in their order, and nothing else.
C24_BatchBound ==
    \A p \in Procs :
        ui[p].mode = "batch"
            => /\ WithinLimit(p)
               /\ (BatchOver(p) /\ Len(NonBlank(ui[p].lines)) > BATCH_LIMIT)
                    => Len(ui[p].results) = BATCH_LIMIT

\* C24 for batches no exception has ended
C24_BoundUnlessAborted ==
    \A p \in Procs :
        (ui[p].mode = "batch" /\ ~ui[p].aborted)
            => /\ WithinLimit(p)
               /\ (BatchOver(p) /\ Len(NonBlank(ui[p].lines)) > BATCH_LIMIT)
                    => Len(ui[p].results) = BATCH_LIMIT

\* a batch over six prompts that has processed five
C24_Full ==
    \E p \in Procs :
        /\ BatchOver(p) /\ ~ui[p].aborted
        /\ Len(NonBlank(ui[p].lines)) > BATCH_LIMIT
        /\ Len(ui[p].results) = BATCH_LIMIT

\* the last call found a corrupt entry, removed it and returned an error
FailedSelfHeal ==
    /\ Quiet /\ Returned
    /\ last.trace.found = "corrupt" /\ last.eff.deletes = 1
    /\ last.ret.source = "error"

\* C25: Failed self-heal leaves no entry.  When generate_image found a corrupt
\* entry and the synthesis after it failed (endpoint, decoding, enhancement
\* or saving the file), it has counted one error and the store holds no entry
\* for the request.
C25_FailedSelfHeal ==
    FailedSelfHeal
        => /\ LastEntry = NoFile
           /\ metrics[last.proc].errors >= 1

\* C25 for the failures before the save
C25_FailedBeforeSave ==
    (FailedSelfHeal /\ last.trace.save = "n/a")
        => /\ LastEntry = NoFile
           /\ metrics[last.proc].errors >= 1

\* C26: generate_image racing with removal still returns an envelope.  A call
\* whose cache file was removed by another call or by clear_cache between its
\* existence check and its own os.remove does not end in the exception of a
\* missing file.
C26_RemovalRace ==
    ~(/\ last.kind = "raised"
      /\ last.trace.entry # NoFile
      /\ last.exc.type = "FileNotFoundError")

\* C27: The enhance flag is not part of the cache identity.  A cache hit
\* returns the stored artifact as it is, enhanced or not, whatever the call
\* asked for, and enhances nothing; after a call has stored the artifact of a
\* request, the next call for the same five fields is such a hit, with or
\* without enhancement requested.
C27_EnhanceNotInKey ==
    /\ (Returned /\ last.ret.source = "cache")
        => /\ last.ret.img.pix = last.trace.entry.pix
           /\ last.ret.img.enh = last.trace.entry.enh
           /\ last.trace.enhanced = "n/a"
           /\ last.trace.endpoint = "n/a"
    /\ (prev.kind = "returned" /\ prev.source = "api" /\ Called
            /\ CacheKey(last.req) = CacheKey(prev.req))
        => /\ Returned
           /\ last.ret.source = "cache"
           /\ last.ret.img.enh = prev.img.enh
           /\ last.ret.img.pix = prev.img.pix

\* C27's case: an enhanced artifact was stored, and the same request, made
\* as the batch loop makes it (no exclusions, no enhancement), is served the
\* enhanced artifact from the cache
C27_Witness ==
    /\ prev.kind = "returned" /\ prev.source = "api" /\ prev.img.enh
    /\ Returned /\ last.req = prev.req
    /\ last.req.negative = <<>> /\ ~last.enhance
    /\ last.ret.source = "cache" /\ last.ret.img.enh

\* the converse case: enhancement requested and an unenhanced artifact served
C27_Converse ==
    /\ prev.kind = "returned" /\ prev.source = "api" /\ ~prev.img.enh
    /\ Returned /\ last.req = prev.req /\ last.enhance
    /\ last.ret.source = "cache" /\ ~last.ret.img.enh

\* C28: Metrics consistency.  In every session the cache hits counted are
\* among the calls counted, so that calls - cache_hits, the denominator of the
\* average generation time, is the number of fresh generations and never
\* negative.
C28_MetricsConsistent ==
    \A p \in Procs :
        Idle(p) => metrics[p].cache_hits <= metrics[p].calls

\* the reason validate_prompt is to give for a description: the first that
\* applies of empty, too long, too short, inappropriate
FirstReason(s) ==
    CASE Blank(s) -> <<"Prompt cannot be empty">>
      [] ~Blank(s) /\ Len(s) > 500 -> TooLong
      [] ~Blank(s) /\ Len(s) <= 500 /\ Words(s) < 3 -> TooShort
      [] ~Blank(s) /\ Len(s) <= 500 /\ Words(s) >= 3 /\ Denied(s) ->
            <<"Prompt contains inappropriate content">>
      [] OTHER -> <<"Valid prompt">>

\* C29: Validation reason precedence.  validate_prompt gives exactly one
\* reason, the first that applies in the order empty or whitespace only, too
\* long, too short, inappropriate content: too long wins over a denylisted
\* term and over too few words, too few words over a denylisted term, and a
\* whitespace-only description over the maximum length is reported as empty.
C29_ReasonPrecedence ==
    (probe.fn = "validate_prompt" /\ probe.done)
        => LET s == probe.prompt IN
           /\ probe.msg = FirstReason(s)
           /\ probe.ok <=> (probe.msg = <<"Valid prompt">>)
           /\ (Len(s) > 500 /\ ~Blank(s) /\ Denied(s)) => probe.msg = TooLong
           /\ (Len(s) > 500 /\ Blank(s)) => probe.msg = <<"Prompt cannot be empty">>
           /\ (Len(s) <= 500 /\ ~Blank(s) /\ Words(s) < 3 /\ Denied(s))
                => probe.msg = TooShort

\* C29's case: a description over the maximum length that holds a denylisted
\* term has been reported as too long
C29_Witness ==
    /\ probe.fn = "validate_prompt" /\ probe.done
    /\ Len(probe.prompt) > 500 /\ Denied(probe.prompt)
    /\ ~probe.ok /\ probe.msg = TooLong

\* further cases of C29: whitespace only over the maximum length; two words
\* with a denylisted term
C29_BlankOverMax ==
    /\ probe.fn = "validate_prompt" /\ probe.done
    /\ Len(probe.prompt) > 500 /\ Blank(probe.prompt)
    /\ probe.msg = <<"Prompt cannot be empty">>

C29_ShortAndDenied ==
    /\ probe.fn = "validate_prompt" /\ probe.done
    /\ Words(probe.prompt) = 2 /\ Denied(probe.prompt)
    /\ probe.msg = TooShort

====
